---- MODULE Spec2Model ----
(***************************************************************************)
(* A model of the event-sourcing persistence engine of mccolljr/money:     *)
(*   - money/storage/postgres.py : PostgreSQLStorage (pool lifecycle,      *)
(*     scoped transactions, event log and snapshot table operations);      *)
(*   - money/framework/aggregate.py : AggregateBase (replay of events);    *)
(*   - fete/core/event.py : EventMeta (the registry of event types).       *)
(***************************************************************************)
EXTENDS Integers, Sequences, FiniteSets, TLC

VARIABLES
    setup,              \* PostgreSQLStorage.__setup: the call holding the lock, 0 when free
    pool,               \* PostgreSQLStorage.__pool: the memoized pool, 0 for None
    timestamp_convert,  \* PostgreSQLStorage.__timestamp_convert ("None" or the template)
    pools,              \* every pool aiopg.create_pool has returned, in creation order
    tables,             \* whether __events and __snapshots exist in the database
    events,             \* the committed rows of table __events
    nextSeq,            \* the next value of __events.sequence_num (BIGSERIAL)
    snapshots,          \* the committed rows of table __snapshots
    nextSnapSeq,        \* the next value of __snapshots.sequence_num (BIGSERIAL)
    calls,              \* the storage operations issued so far, each a coroutine
    commits,            \* the calls whose COMMIT succeeded, in commit order
    closes,             \* the number of calls of close() so far
    by_name,            \* EventMeta.__by_name: event name -> event class (0: absent)
    regLog,             \* the outcome of every event class statement, in order
    replay,             \* the aggregate replay in progress (load / load_all / from_events)
    decl                \* the aggregate class statement in progress (AggregateMeta)

vars == <<setup, pool, timestamp_convert, pools, tables, events, nextSeq,
          snapshots, nextSnapSeq, calls, commits, closes, by_name, regLog, replay, decl>>

\* the part of the state the storage operations never touch
registryVars == <<by_name, regLog, replay, decl>>
otherVars == <<closes, by_name, regLog, replay, decl>>

storageVars == <<closes, setup, pool, timestamp_convert, pools, tables, events, nextSeq,
                 snapshots, nextSnapSeq, calls, commits>>

(***************************************************************************)
(* Bounds of the model.                                                    *)
(***************************************************************************)
MaxCalls == 3        \* operations issued on the event log in one behaviour
MaxSnapCalls == 3    \* operations issued on the snapshot table in one behaviour
MaxPoolCalls == 2    \* operations issued while the pool may fail or be closed
MaxCloses == 2       \* calls of close() in one behaviour
MaxQueryCalls == 2   \* operations issued on the queried event log in one behaviour

\* the caller tasks that share the storage engine; each awaits its operations in turn
Callers == {"t1", "t2"}
\* the callers differ in name only: the first operation is the first caller's
FirstCaller == "t1"

(***************************************************************************)
(* Python values, tagged with their type; JSON values, tagged with theirs. *)
(***************************************************************************)
PyStr(s) == <<"str", s>>
PyInt(n) == <<"int", n>>
PyDatetime(instant, utcoffset) == <<"datetime", instant, utcoffset>>
PyDecimal(n) == <<"Decimal", n>>
PyBool(b) == <<"bool", b>>
PyNone == <<"NoneType">>

\* datetime.isoformat() of an aware datetime: the local wall clock and the offset
isoformat(d) == "T" \o ToString(d[2] + d[3]) \o "+" \o ToString(d[3])

\* datetime.astimezone(timezone.utc): the same instant, offset 0
astimezone_utc(d) == <<"datetime", d[2], 0>>

\* json.dumps of one value with cls=_pgjson; <<"TypeError", t>> when
\* JSONEncoder.default raises for a value of type t
pgjson_value(o) ==
    CASE o[1] = "str" -> <<"string", o[2]>>
      [] o[1] = "int" -> <<"number", o[2]>>
      [] o[1] = "bool" -> <<"boolean", o[2]>>
      [] o[1] = "datetime" -> <<"string", isoformat(astimezone_utc(o))>>
      [] OTHER -> <<"TypeError", o[1]>>

\* _pgjson.dumps of a dict (to_dict() of an event or an aggregate)
pgjson_dumps(val) == [k \in DOMAIN val |-> pgjson_value(val[k])]

\* whether _pgjson.dumps raises TypeError on the dict
pgjson_raises(val) == \E k \in DOMAIN val : pgjson_value(val[k])[1] = "TypeError"

\* what the driver hands back for a JSONB column: the decoded dict
jsonb_value(j) ==
    CASE j[1] = "number" -> <<"int", j[2]>>
      [] j[1] = "boolean" -> <<"bool", j[2]>>
      [] OTHER -> <<"str", j[2]>>
jsonb_loads(obj) == [k \in DOMAIN obj |-> jsonb_value(obj[k])]

(***************************************************************************)
(* The inputs of the storage operations: event objects and aggregate       *)
(* instances (objects of the schema layer: a class name and to_dict()).    *)
(***************************************************************************)
Created == [type |-> "Created", data |-> [id |-> PyStr("a1")]]
Renamed == [type |-> "Renamed", data |-> [id |-> PyStr("a1"), name |-> PyStr("X")]]
\* an event whose payload json.dumps cannot serialize (a decimal.Decimal)
Priced == [type |-> "Priced", data |-> [id |-> PyStr("a1"), amount |-> PyDecimal(15)]]
EventCatalog == <<Created, Renamed, Priced>>
\* events with a number in their payload
Paid(amount) == [type |-> "Paid", data |-> [id |-> PyStr("a1"), amount |-> PyInt(amount)]]

AccountA1X == [type |-> "Account", data |-> [id |-> PyStr("a1"), name |-> PyStr("X")]]
AccountA1Y == [type |-> "Account", data |-> [id |-> PyStr("a1"), name |-> PyStr("Y")]]
AccountA2X == [type |-> "Account", data |-> [id |-> PyStr("a2"), name |-> PyStr("X")]]
SnapCatalog == <<AccountA1X, AccountA1Y, AccountA2X>>

\* the n items of a catalog from position k on, cyclically
Stream(catalog, k, n) == [i \in 1..n |-> catalog[((k + i - 1) % Len(catalog)) + 1]]

EventLists == {Stream(EventCatalog, 0, 1), Stream(EventCatalog, 0, 2),
               Stream(EventCatalog, 1, 2)}
SnapLists == {Stream(SnapCatalog, 0, 1), Stream(SnapCatalog, 0, 2),
              Stream(SnapCatalog, 1, 2)}

\* the names of the event classes; EventBase is declared by fete/core/event.py itself
EventNames == {"Created", "Renamed", "Priced"}
RegNames == EventNames \cup {"EventBase"}

(***************************************************************************)
(* Tables.                                                                 *)
(***************************************************************************)
RECURSIVE OrderBySeq_Desc(_)
\* ORDER BY sequence_num DESC
OrderBySeq_Desc(rows) ==
    IF rows = {} THEN <<>>
    ELSE LET first == CHOOSE r \in rows : \A q \in rows : r.sequence_num >= q.sequence_num
         IN <<first>> \o OrderBySeq_Desc(rows \ {first})

RECURSIVE OrderBySeq(_)
\* ORDER BY sequence_num ASC
OrderBySeq(rows) ==
    IF rows = {} THEN <<>>
    ELSE LET first == CHOOSE r \in rows : \A q \in rows : r.sequence_num <= q.sequence_num
         IN <<first>> \o OrderBySeq(rows \ {first})

\* INSERT INTO __events (event_type, event_data) values (%s, %s), once committed
InsertEvent(table, row) == table \cup {row}

\* ON CONFLICT(aggregate_id) DO NOTHING: the first payload stays
UpsertSnapshot_DoNothing(table, row) ==
    IF \E r \in table : r.aggregate_id = row.aggregate_id
    THEN table
    ELSE table \cup {row}

\* an upsert that replaces the whole row of the identity (delete, then insert)
UpsertSnapshot_Replace(table, row) ==
    {r \in table : r.aggregate_id # row.aggregate_id} \cup {row}

\* INSERT INTO __snapshots ... ON CONFLICT(aggregate_id) DO UPDATE SET
\*     aggregate_data=excluded.aggregate_data, once committed
UpsertSnapshot(table, row) ==
    IF \E r \in table : r.aggregate_id = row.aggregate_id
    THEN {IF r.aggregate_id = row.aggregate_id
          THEN [r EXCEPT !.aggregate_data = row.aggregate_data]
          ELSE r : r \in table}
    ELSE table \cup {row}

RECURSIVE ApplyPending(_, _, _)
\* the effect of a transaction's statements on a table, in statement order
ApplyPending(table, pending, tname) ==
    IF pending = <<>> THEN table
    ELSE LET row == Head(pending).row
             next == IF Head(pending).table # tname THEN table
                     ELSE IF tname = "__events" THEN InsertEvent(table, row)
                     ELSE UpsertSnapshot(table, row)
         IN ApplyPending(next, Tail(pending), tname)

\* COMMIT: the transaction's statements become visible
AfterCommit(table, pending, tname) == ApplyPending(table, pending, tname)

\* an except clause that commits what the body had done
AfterRollback_Commits(table, pending, tname) == ApplyPending(table, pending, tname)

\* ROLLBACK: none of the transaction's statements becomes visible
AfterRollback(table, pending, tname) == table

\* f"{snap_typ.__name__}:{getattr(snap, snap_typ.__agg_id__)}"
py_format(v) == IF v[1] = "int" THEN ToString(v[2]) ELSE v[2]
snap_id(snap) == snap.type \o ":" \o py_format(snap.data["id"])

\* EventMeta.construct_named(name, args): cls.__by_name[name](**args);
\* the lookup raises KeyError for a name that is not registered
construct_named(name, args) == [type |-> name, data |-> args]
construct_named_raises(name) == by_name[name] = 0

\* AggregateMeta.construct_named(row[0], row[1])
construct_named_aggregate(name, args) == [type |-> name, data |-> args]

(***************************************************************************)
(* Predicates (money.predicate) and their compilation to SQL by            *)
(* _PostgreSQLSimplifier.  A clause is kept as the pieces the f-strings    *)
(* put together; Render gives its text, token by token.                    *)
(***************************************************************************)
\* the predicate constructors
Is(types) == [node |-> "Is", types |-> types]
Where(fields) == [node |-> "Where", fields |-> fields]
Field(name, fpred) == [name |-> name, pred |-> fpred]
Eq(expect) == [node |-> "Eq", args |-> <<expect>>]
NotEq(expect) == [node |-> "NotEq", args |-> <<expect>>]
Less(limit) == [node |-> "Less", args |-> <<limit>>]
More(limit) == [node |-> "More", args |-> <<limit>>]
LessEq(limit) == [node |-> "LessEq", args |-> <<limit>>]
MoreEq(limit) == [node |-> "MoreEq", args |-> <<limit>>]
Between(lower, upper) == [node |-> "Between", args |-> <<lower, upper>>]
OneOf(options) == [node |-> "OneOf", args |-> options]

\* _PostgreSQLSimplifier._ph
ph == "%s"

\* the two templates of the timestamp conversion, each as the text before and
\* the text after its {} (str.format puts the argument between them)
FromIsoFormat == <<"fromisoformat(", ")">>
ToTimestamp == <<"to_timestamp(", ", 'YYYY-MM-DD\"T\"HH24:MI:SSTZH:TZM')">>
\* the template the bootstrap stores in self.__timestamp_convert (line 201)
Template(text) == IF text = "fromisoformat({})" THEN FromIsoFormat ELSE <<text, "">>

\* _PostgreSQLSimplifier.__init__, lines 50-57: the engine's template, or the
\* format-string conversion when the engine has none
Simplifier(type_field, data_field, convert) ==
    [type_field |-> type_field, data_field |-> data_field,
     timestamp_convert |-> IF convert # "None" THEN Template(convert) ELSE ToTimestamp]

\* on_is, lines 63-65: one placeholder and one parameter, the name, per type
on_is(self, p_is) ==
    [residual |-> "None",
     clause |-> [sql |-> "in", column |-> self.type_field, n |-> Len(p_is.types)],
     params |-> [k \in 1..Len(p_is.types) |-> PyStr(p_is.types[k])]]

\* a test that takes a value of any type for a primitive
IsPrimitive_Any(val) == TRUE

\* _smart_query, line 80: isinstance(val, (str, int, float, bool))
IsPrimitive(val) == val[1] \in {"str", "int", "float", "bool"}

\* _smart_query, line 85: isinstance(val, datetime)
IsDatetime(val) == val[1] = "datetime"

\* a comparison that sends the value first and the field name second
smart_query_ValueFirst(self, field, oper, val) ==
    IF IsPrimitive(val)
    THEN [clause |-> [sql |-> "jsonb", data |-> self.data_field, oper |-> oper],
          params |-> <<<<"json", pgjson_value(val)>>, PyStr(field)>>]
    ELSE [clause |-> [sql |-> "timestamp", data |-> self.data_field, oper |-> oper,
                      convert |-> self.timestamp_convert],
          params |-> <<PyStr(isoformat(val)), PyStr(field)>>]

\* _smart_query, lines 80-92: the comparison of one field with one value; the
\* parameter <<"json", j>> is the str json.dumps(val), the text of the JSON value j
smart_query(self, field, oper, val) ==
    IF IsPrimitive(val)
    THEN [clause |-> [sql |-> "jsonb", data |-> self.data_field, oper |-> oper],
          params |-> <<PyStr(field), <<"json", pgjson_value(val)>>>>]
    ELSE [clause |-> [sql |-> "timestamp", data |-> self.data_field, oper |-> oper,
                      convert |-> self.timestamp_convert],
          params |-> <<PyStr(field), PyStr(isoformat(val))>>]

\* _smart_query, line 93: RuntimeError for a value of any other type
smart_query_raises(val) == ~IsPrimitive(val) /\ ~IsDatetime(val)

\* the operator of each scalar comparison: on_eq ... on_more_eq, lines 95-117
Operator ==
    [Eq |-> "=", NotEq |-> "<>", Less |-> "<", More |-> ">", LessEq |-> "<=",
     MoreEq |-> ">="]

RECURSIVE Concat(_)
\* list(a) + list(b) + ..., and list.extend
Concat(seqs) == IF seqs = <<>> THEN <<>> ELSE Head(seqs) \o Concat(Tail(seqs))

\* on_eq ... on_more_eq (lines 95-117), on_between (lines 119-126) and
\* on_one_of (lines 128-135), reached through visit_field_predicate
visit_field_predicate(self, name, fpred) ==
    CASE fpred.node = "Between" ->
            LET low == smart_query(self, name, ">=", fpred.args[1])
                hi == smart_query(self, name, "<=", fpred.args[2])
            IN [residual |-> "None",
                clause |-> [sql |-> "join", sep |-> " AND ",
                            items |-> <<low.clause, hi.clause>>],
                params |-> low.params \o hi.params]
      [] fpred.node = "OneOf" ->
            LET opts == [k \in 1..Len(fpred.args) |->
                            smart_query(self, name, "=", fpred.args[k])]
            IN [residual |-> "None",
                clause |-> [sql |-> "join", sep |-> " OR ",
                            items |-> [k \in 1..Len(opts) |-> opts[k].clause]],
                params |-> Concat([k \in 1..Len(opts) |-> opts[k].params])]
      [] OTHER ->
            LET q == smart_query(self, name, Operator[fpred.node], fpred.args[1])
            IN [residual |-> "None", clause |-> q.clause, params |-> q.params]

\* the first _smart_query of the field predicate that raises, if any
field_predicate_raises(fpred) ==
    \E k \in 1..Len(fpred.args) : smart_query_raises(fpred.args[k])

\* on_where, lines 67-75: every field predicate is lowered, the clauses joined
\* with AND in the order of the dict, the parameters in the same order
on_where(self, p_where) ==
    LET subs == [k \in 1..Len(p_where.fields) |->
                    visit_field_predicate(self, p_where.fields[k].name,
                                          p_where.fields[k].pred)]
    IN [residual |-> "None",
        clause |-> [sql |-> "join", sep |-> " AND ",
                    items |-> [k \in 1..Len(subs) |-> subs[k].clause]],
        params |-> Concat([k \in 1..Len(subs) |-> subs[k].params])]

\* visit_predicate: the method of the predicate's variant
visit_predicate(self, pred) ==
    IF pred.node = "Is" THEN on_is(self, pred) ELSE on_where(self, pred)

\* whether the compilation raises RuntimeError
simplify_raises(pred) ==
    /\ pred.node = "Where"
    /\ \E k \in 1..Len(pred.fields) : field_predicate_raises(pred.fields[k].pred)

\* PostgreSQLStorage.__simplify, lines 224-232
simplify(pred, type_field, data_field) ==
    visit_predicate(Simplifier(type_field, data_field, timestamp_convert), pred)

RECURSIVE JoinTokens(_, _)
RECURSIVE Render(_)
\* sep.join(texts)
JoinTokens(texts, sep) ==
    IF texts = <<>> THEN <<>>
    ELSE IF Len(texts) = 1 THEN texts[1]
    ELSE texts[1] \o <<sep>> \o JoinTokens(Tail(texts), sep)

\* the text of a clause, as a sequence of tokens
Render(clause) ==
    CASE clause.sql = "in" ->
            <<clause.column, " IN (">>
                \o JoinTokens([k \in 1..clause.n |-> <<ph>>], ", ") \o <<")">>
      [] clause.sql = "jsonb" ->
            <<clause.data, "->", ph, " ", clause.oper, " ", ph, "::jsonb">>
      [] clause.sql = "timestamp" ->
            <<clause.convert[1], clause.data, "->>", ph, clause.convert[2],
              " ", clause.oper, " ", ph, "::timestamp">>
      [] OTHER ->
            <<"(">> \o JoinTokens([k \in 1..Len(clause.items) |->
                                     Render(clause.items[k])], clause.sep) \o <<")">>

(***************************************************************************)
(* What PostgreSQL makes of a clause and its parameters: the driver puts   *)
(* the parameters, as literals, in the place of the placeholders from left *)
(* to right; the WHERE clause keeps the rows for which it is true.         *)
(***************************************************************************)
RECURSIVE CountPh(_)
CountPh(tokens) ==
    IF tokens = <<>> THEN 0
    ELSE (IF Head(tokens) = ph THEN 1 ELSE 0) + CountPh(Tail(tokens))

\* the placeholders of a clause's text
Placeholders(clause) == CountPh(Render(clause))

RECURSIVE WellFormed(_)
\* whether the text is an SQL expression: `()` and `IN ()` are syntax errors
WellFormed(clause) ==
    CASE clause.sql = "in" -> clause.n > 0
      [] clause.sql = "join" ->
            /\ clause.items # <<>>
            /\ \A k \in 1..Len(clause.items) : WellFormed(clause.items[k])
      [] OTHER -> TRUE

\* the order of jsonb values: by type (string < number < boolean), numbers by
\* value, strings by the database's collation; StringOrder is the order of the
\* model's strings by code point, the order of Python and of the C collation
JsonbTypeOrder == [string |-> 1, number |-> 2, boolean |-> 3]
StringOrder == [X |-> 1, Y |-> 2, a1 |-> 3, a2 |-> 4]
ScalarLess(a, b) ==
    CASE a[1] = "number" -> a[2] < b[2]
      [] a[1] = "string" -> StringOrder[a[2]] < StringOrder[b[2]]
      [] OTHER -> ~a[2] /\ b[2]
JsonbLess(a, b) ==
    IF a[1] # b[1] THEN JsonbTypeOrder[a[1]] < JsonbTypeOrder[b[1]] ELSE ScalarLess(a, b)
JsonbCompare(a, oper, b) ==
    CASE oper = "=" -> a = b
      [] oper = "<>" -> a # b
      [] oper = "<" -> JsonbLess(a, b)
      [] oper = ">" -> JsonbLess(b, a)
      [] oper = "<=" -> a = b \/ JsonbLess(a, b)
      [] oper = ">=" -> a = b \/ JsonbLess(b, a)

RECURSIVE Offset(_, _)
\* the placeholders before the k-th item of a joined clause
Offset(items, k) ==
    IF k = 1 THEN 0 ELSE Offset(items, k - 1) + Placeholders(items[k - 1])

RECURSIVE RowMatches(_, _, _, _)
\* whether the clause, with the parameters params[from + 1 ..] in its
\* placeholders, is true of the row; a comparison with the NULL that -> gives
\* for a key the payload has not is not true
RowMatches(clause, params, from, row) ==
    CASE clause.sql = "in" ->
            \E k \in 1..clause.n : params[from + k] = PyStr(row.event_type)
      [] clause.sql = "jsonb" ->
            LET key == params[from + 1]
                val == params[from + 2]
            IN /\ key[1] = "str" /\ val[1] = "json"
               /\ key[2] \in DOMAIN row.event_data
               /\ JsonbCompare(row.event_data[key[2]], clause.oper, val[2])
      [] clause.sql = "timestamp" -> FALSE
      [] clause.sep = " AND " ->
            \A k \in 1..Len(clause.items) :
                RowMatches(clause.items[k], params, from + Offset(clause.items, k), row)
      [] OTHER ->
            \E k \in 1..Len(clause.items) :
                RowMatches(clause.items[k], params, from + Offset(clause.items, k), row)

\* whether conn.execute raises: a syntax error, or not as many parameters as
\* placeholders
ExecuteRaises(clause, params) ==
    ~WellFormed(clause) \/ Placeholders(clause) # Len(params)

(***************************************************************************)
(* What a predicate means when it is applied to an event in-process.       *)
(***************************************************************************)
\* int and bool compare as numbers (True == 1), str by code points
PyNumber(a) == IF a[1] = "bool" THEN (IF a[2] THEN 1 ELSE 0) ELSE a[2]
PyEq(a, b) ==
    IF a[1] \in {"int", "bool"} /\ b[1] \in {"int", "bool"}
    THEN PyNumber(a) = PyNumber(b)
    ELSE a = b
PyLess(a, b) ==
    IF a[1] = "str" THEN StringOrder[a[2]] < StringOrder[b[2]]
    ELSE PyNumber(a) < PyNumber(b)

\* a field predicate applied to a value
Holds(fpred, v) ==
    CASE fpred.node = "Eq" -> PyEq(v, fpred.args[1])
      [] fpred.node = "NotEq" -> ~PyEq(v, fpred.args[1])
      [] fpred.node = "Less" -> PyLess(v, fpred.args[1])
      [] fpred.node = "More" -> PyLess(fpred.args[1], v)
      [] fpred.node = "LessEq" -> PyEq(v, fpred.args[1]) \/ PyLess(v, fpred.args[1])
      [] fpred.node = "MoreEq" -> PyEq(v, fpred.args[1]) \/ PyLess(fpred.args[1], v)
      [] fpred.node = "Between" ->
            /\ PyEq(v, fpred.args[1]) \/ PyLess(fpred.args[1], v)
            /\ PyEq(v, fpred.args[2]) \/ PyLess(v, fpred.args[2])
      [] fpred.node = "OneOf" -> \E k \in 1..Len(fpred.args) : PyEq(v, fpred.args[k])

\* a predicate applied to an event: Is by the name of the event's class, Where
\* by every field predicate on the event's value of the field
Satisfies(pred, evt) ==
    IF pred.node = "Is"
    THEN \E k \in 1..Len(pred.types) : pred.types[k] = evt.type
    ELSE \A k \in 1..Len(pred.fields) :
             /\ pred.fields[k].name \in DOMAIN evt.data
             /\ Holds(pred.fields[k].pred, evt.data[pred.fields[k].name])

(***************************************************************************)
(* Storage operations.  Every operation is a coroutine: a record of calls  *)
(* holding its position (pc) and its locals.                               *)
(***************************************************************************)
At(c, where) == c \in 1..Len(calls) /\ calls[c].pc = where

NewCall(p, kind, args) ==
    [proc |-> p, kind |-> kind, args |-> args, pc |-> "get_pool", i |-> 0, pool |-> 0,
     txn |-> "none", pending |-> <<>>, stmts |-> <<>>, body |-> "none",
     raised |-> "none", result |-> <<>>, sql |-> <<>>,
     before |-> {d \in 1..Len(calls) : calls[d].pc = "done" /\ calls[d].raised = "none"}]

\* what the caller keeps of a coroutine that has ended: the value it returned or
\* the exception it raised (its frame, cursor and connection are gone)
Ended(r) ==
    IF r.raised = "none"
    THEN [proc |-> "-", kind |-> r.kind, pc |-> "done", raised |-> "none",
          args |-> r.args, result |-> r.result, sql |-> r.sql, before |-> r.before]
    ELSE [proc |-> "-", kind |-> "-", pc |-> "done", raised |-> r.raised,
          args |-> <<>>, result |-> <<>>, sql |-> <<>>, before |-> {}]

\* a caller issues one of the four operations; it first awaits self.__get_pool()
call(p, kind, args, max) ==
    /\ Len(calls) < max
    /\ \A c \in 1..Len(calls) : calls[c].proc # p
    /\ calls = <<>> => p = FirstCaller
    /\ calls' = Append(calls, NewCall(p, kind, args))
    /\ UNCHANGED <<setup, pool, timestamp_convert, pools, tables, events, nextSeq,
                   snapshots, nextSnapSeq, commits>>
    /\ UNCHANGED otherVars

\* a lock that excludes nobody
LockFree_NoExclusion == TRUE

\* async with self.__setup: the asyncio.Lock is free
LockFree == setup = 0

\* __get_pool, lines 154-156: take the lock; a memoized pool is returned at once
\* (the lock is released on return), otherwise the lock is kept for the creation
get_pool_enter(c) ==
    /\ At(c, "get_pool")
    /\ LockFree
    /\ IF pool # 0
       THEN /\ calls' = [calls EXCEPT ![c].pc = "begin", ![c].pool = pool]
            /\ UNCHANGED setup
       ELSE /\ setup' = c
            /\ calls' = [calls EXCEPT ![c].pc = "create_pool"]
    /\ UNCHANGED <<pool, timestamp_convert, pools, tables, events, nextSeq,
                   snapshots, nextSnapSeq, commits>>
    /\ UNCHANGED otherVars

\* __get_pool, line 157: await aiopg.create_pool(dsn); it may fail (the error leaves
\* the async with, which releases the lock)
get_pool_create(c, ok) ==
    /\ At(c, "create_pool")
    /\ IF ok
       THEN /\ pools' = Append(pools, [state |-> "open", bootstrap |-> "none", closed |-> 0,
                                    extension |-> "none"])
            /\ calls' = [calls EXCEPT ![c].pc = "bootstrap", ![c].pool = Len(pools) + 1]
            /\ UNCHANGED setup
       ELSE /\ setup' = 0
            /\ calls' = [calls EXCEPT ![c] = Ended([calls[c] EXCEPT !.raised = "pool_error"])]
            /\ UNCHANGED pools
    /\ UNCHANGED <<pool, timestamp_convert, tables, events, nextSeq,
                   snapshots, nextSnapSeq, commits>>
    /\ UNCHANGED otherVars

\* COMMIT of a transaction in which a statement has failed: PostgreSQL has
\* aborted the transaction at the failure, ignores what follows and answers
\* COMMIT with a rollback, raising nothing; the tables created in it are gone
CommitAborted(existed) == existed

\* __get_pool, lines 158-208: the schema bootstrap in one transaction, under the lock.
\* outcome "error": a CREATE TABLE (or BEGIN, COMMIT) fails, ROLLBACK, raise (the
\* pool is not memoized); "fallback": CREATE EXTENSION fails, which is caught and
\* logged (lines 186-189), then COMMIT; "native": the function is made, then COMMIT.
get_pool_bootstrap(c, outcome) ==
    /\ At(c, "bootstrap")
    /\ IF outcome = "error"
       THEN /\ pools' = [pools EXCEPT ![calls[c].pool].bootstrap = "failed"]
            /\ calls' = [calls EXCEPT ![c] = Ended([calls[c] EXCEPT !.raised = "pool_error"])]
            /\ UNCHANGED <<pool, timestamp_convert, tables>>
       ELSE /\ pools' = [pools EXCEPT ![calls[c].pool].bootstrap = "ok",
                                      ![calls[c].pool].extension = outcome]
            /\ tables' = IF outcome = "native" THEN TRUE ELSE CommitAborted(tables)
            /\ timestamp_convert' =
                   IF outcome = "native" THEN "fromisoformat({})" ELSE timestamp_convert
            /\ pool' = calls[c].pool
            /\ calls' = [calls EXCEPT ![c].pc = "begin"]
    /\ setup' = 0
    /\ UNCHANGED <<events, nextSeq, snapshots, nextSnapSeq, commits>>
    /\ UNCHANGED otherVars

\* get_cursor, lines 214-216: acquire a connection and a cursor, execute BEGIN.
\* A pool that close() has closed in the meantime refuses the acquisition.
get_cursor_begin(c) ==
    /\ At(c, "begin")
    /\ IF pools[calls[c].pool].state = "closed"
       THEN calls' = [calls EXCEPT ![c] = Ended([calls[c] EXCEPT !.raised = "pool_error"])]
       ELSE calls' = [calls EXCEPT ![c].pc = "body", ![c].txn = "open",
                                   ![c].stmts = <<"BEGIN">>]
    /\ UNCHANGED <<setup, pool, timestamp_convert, pools, tables, events, nextSeq,
                   snapshots, nextSnapSeq, commits>>
    /\ UNCHANGED otherVars

\* the body of the async with has run to its end
BodyComplete(c) ==
    IF calls[c].kind \in {"save_events", "save_snapshots"}
    THEN calls[c].i = Len(calls[c].args)
    ELSE calls[c].i = 1

\* get_cursor, line 219: the body returned, execute COMMIT; a failure of COMMIT
\* is caught by the except clause of line 220
get_cursor_commit(c, ok) ==
    /\ At(c, "body")
    /\ BodyComplete(c)
    /\ IF ok
       THEN /\ calls' = [calls EXCEPT ![c].pc = "release", ![c].txn = "committed",
                                      ![c].body = "ok",
                                      ![c].stmts = Append(@, "COMMIT")]
            /\ events' = AfterCommit(events, calls[c].pending, "__events")
            /\ snapshots' = AfterCommit(snapshots, calls[c].pending, "__snapshots")
            /\ commits' = Append(commits, c)
       ELSE /\ calls' = [calls EXCEPT ![c].pc = "rollback", ![c].body = "ok",
                                      ![c].raised = "commit_error",
                                      ![c].stmts = Append(@, "COMMIT")]
            /\ UNCHANGED <<events, snapshots, commits>>
    /\ UNCHANGED <<setup, pool, timestamp_convert, pools, tables, nextSeq, nextSnapSeq>>
    /\ UNCHANGED otherVars

\* get_cursor, lines 220-222: except Exception: execute ROLLBACK, raise
get_cursor_rollback(c) ==
    /\ At(c, "rollback")
    /\ calls' = [calls EXCEPT ![c].pc = "release", ![c].txn = "rolledback",
                              ![c].pending = <<>>,
                              ![c].stmts = Append(@, "ROLLBACK")]
    /\ events' = AfterRollback(events, calls[c].pending, "__events")
    /\ snapshots' = AfterRollback(snapshots, calls[c].pending, "__snapshots")
    /\ UNCHANGED <<setup, pool, timestamp_convert, pools, tables, nextSeq,
                   nextSnapSeq, commits>>
    /\ UNCHANGED otherVars

\* get_cursor, lines 214-215: the two async with blocks are left, which closes the
\* cursor and hands the connection back to the pool; the operation returns or raises
get_cursor_release(c) ==
    /\ At(c, "release")
    /\ calls' = [calls EXCEPT ![c] = Ended(calls[c])]
    /\ UNCHANGED <<setup, pool, timestamp_convert, pools, tables, events, nextSeq,
                   snapshots, nextSnapSeq, commits>>
    /\ UNCHANGED otherVars

\* whether `except Exception` (line 220) catches an exception of this class:
\* asyncio.CancelledError derives from Exception up to Python 3.7 and from
\* BaseException from Python 3.8 on; GeneratorExit always from BaseException
ExceptException(cls) == cls = "Exception"

\* the caller's task is cancelled while the body awaits a statement: CancelledError
\* is thrown into the generator at the yield of line 218
body_cancel(c, cls) ==
    /\ At(c, "body")
    /\ calls' = [calls EXCEPT ![c].pc = IF ExceptException(cls) THEN "rollback"
                                        ELSE "release",
                              ![c].body = "cancelled",
                              ![c].raised = "CancelledError"]
    /\ UNCHANGED <<setup, pool, timestamp_convert, pools, tables, events, nextSeq,
                   snapshots, nextSnapSeq, commits>>
    /\ UNCHANGED otherVars

\* a close() that closes the pool and keeps the reference to it
close_KeepsPool ==
    /\ closes < MaxCloses
    /\ LockFree
    /\ closes' = closes + 1
    /\ IF pool # 0
       THEN pools' = [pools EXCEPT ![pool].state = "closed", ![pool].closed = @ + 1]
       ELSE UNCHANGED pools
    /\ UNCHANGED <<pool, setup, timestamp_convert, tables, events, nextSeq,
                   snapshots, nextSnapSeq, calls, commits>>
    /\ UNCHANGED registryVars

\* close, lines 305-310: under the lock, close the memoized pool and forget it
\* (pools[p].closed counts the calls of p.close())
close ==
    /\ closes < MaxCloses
    /\ LockFree
    /\ closes' = closes + 1
    /\ IF pool # 0
       THEN /\ pools' = [pools EXCEPT ![pool].state = "closed", ![pool].closed = @ + 1]
            /\ pool' = 0
       ELSE UNCHANGED <<pools, pool>>
    /\ UNCHANGED <<setup, timestamp_convert, tables, events, nextSeq,
                   snapshots, nextSnapSeq, calls, commits>>
    /\ UNCHANGED registryVars

\* a statement of the body fails: the exception leaves the body at the yield
BodyRaises(c, error) ==
    [calls EXCEPT ![c].pc = "rollback", ![c].body = "error", ![c].raised = error]

\* save_events, lines 259-264: serialize the next event and execute its INSERT
save_events_insert(c, ok) ==
    /\ At(c, "body")
    /\ calls[c].kind = "save_events"
    /\ calls[c].i < Len(calls[c].args)
    /\ LET evt == calls[c].args[calls[c].i + 1]
           row == [sequence_num |-> nextSeq, event_type |-> evt.type,
                   event_data |-> pgjson_dumps(evt.data),
                   call |-> c, idx |-> calls[c].i + 1]
       IN IF pgjson_raises(evt.data)
          THEN calls' = BodyRaises(c, "TypeError") /\ UNCHANGED nextSeq
          ELSE IF ~ok \/ ~tables
          THEN calls' = BodyRaises(c, "DatabaseError") /\ UNCHANGED nextSeq
          ELSE /\ calls' = [calls EXCEPT ![c].i = @ + 1,
                               ![c].pending = Append(@, [table |-> "__events", row |-> row])]
               /\ nextSeq' = nextSeq + 1
    /\ UNCHANGED <<setup, pool, timestamp_convert, pools, tables, events,
                   snapshots, nextSnapSeq, commits>>
    /\ UNCHANGED otherVars

\* the rows of a SELECT ... WHERE clause ORDER BY sequence_num ASC
SelectWhere(rows, clause, params) ==
    LET Matches(row) == RowMatches(clause, params, 0, row)
    IN SelectSeq(OrderBySeq(rows), Matches)

\* load_events, lines 237-253; args is <<>> for query=None and <<query>> otherwise
\* (a predicate object is true in `if query:`).  The query is compiled inside the
\* cursor's body; the statement goes to conn.execute with the clause and the
\* parameters; every row is rebuilt by EventMeta.construct_named and kept, the
\* residual being None.  sql records what conn.execute was given.
load_events_select(c) ==
    /\ At(c, "body")
    /\ calls[c].kind = "load_events"
    /\ calls[c].i = 0
    /\ LET hasQuery == Len(calls[c].args) > 0
           simplified == simplify(calls[c].args[1], "event_type", "event_data")
           stmt == IF hasQuery
                   THEN [where |-> <<simplified.clause>>, params |-> simplified.params]
                   ELSE [where |-> <<>>, params |-> <<>>]
           rows == IF hasQuery
                   THEN SelectWhere(events, simplified.clause, simplified.params)
                   ELSE OrderBySeq(events)
       IN IF hasQuery /\ simplify_raises(calls[c].args[1])
          THEN calls' = BodyRaises(c, "RuntimeError")
          ELSE IF ~tables \/ (hasQuery /\ ExecuteRaises(simplified.clause, simplified.params))
          THEN calls' = [BodyRaises(c, "DatabaseError") EXCEPT ![c].sql = <<stmt>>]
          ELSE IF \E n \in 1..Len(rows) : construct_named_raises(rows[n].event_type)
          THEN calls' = [BodyRaises(c, "KeyError") EXCEPT ![c].sql = <<stmt>>]
          ELSE calls' = [calls EXCEPT ![c].i = 1, ![c].sql = <<stmt>>, ![c].result =
                   [n \in 1..Len(rows) |->
                       [evt |-> construct_named(rows[n].event_type,
                                                jsonb_loads(rows[n].event_data)),
                        src |-> <<rows[n].call, rows[n].idx>>]]]
    /\ UNCHANGED <<setup, pool, timestamp_convert, pools, tables, events, nextSeq,
                   snapshots, nextSnapSeq, commits>>
    /\ UNCHANGED otherVars

\* the row lock of ON CONFLICT: another open transaction has written this identity
RowLocked(c, aggregate_id) ==
    \E q \in 1..Len(calls) :
        /\ q # c
        /\ calls[q].pc # "done"
        /\ calls[q].txn = "open"
        /\ \E n \in 1..Len(calls[q].pending) :
               /\ calls[q].pending[n].table = "__snapshots"
               /\ calls[q].pending[n].row.aggregate_id = aggregate_id

\* save_snapshots, lines 270-282: serialize the next snapshot and execute its upsert
save_snapshots_upsert(c, ok) ==
    /\ At(c, "body")
    /\ calls[c].kind = "save_snapshots"
    /\ calls[c].i < Len(calls[c].args)
    /\ LET snap == calls[c].args[calls[c].i + 1]
           row == [sequence_num |-> nextSnapSeq, aggregate_id |-> snap_id(snap),
                   aggregate_type |-> snap.type,
                   aggregate_data |-> pgjson_dumps(snap.data),
                   call |-> c, idx |-> calls[c].i + 1]
       IN IF pgjson_raises(snap.data)
          THEN calls' = BodyRaises(c, "TypeError") /\ UNCHANGED nextSnapSeq
          ELSE IF ~ok \/ ~tables
          THEN calls' = BodyRaises(c, "DatabaseError") /\ UNCHANGED nextSnapSeq
          ELSE /\ ~RowLocked(c, row.aggregate_id)
               /\ calls' = [calls EXCEPT ![c].i = @ + 1,
                               ![c].pending = Append(@, [table |-> "__snapshots", row |-> row])]
               /\ nextSnapSeq' = nextSnapSeq + 1
    /\ UNCHANGED <<setup, pool, timestamp_convert, pools, tables, events, nextSeq,
                   snapshots, commits>>
    /\ UNCHANGED otherVars

\* load_snapshots with query=None, lines 287-303
load_snapshots_select(c) ==
    /\ At(c, "body")
    /\ calls[c].kind = "load_snapshots"
    /\ calls[c].i = 0
    /\ LET rows == OrderBySeq(snapshots)
       IN IF ~tables
          THEN calls' = BodyRaises(c, "DatabaseError")
          ELSE calls' = [calls EXCEPT ![c].i = 1, ![c].result =
                   [n \in 1..Len(rows) |->
                       [snap |-> construct_named_aggregate(rows[n].aggregate_type,
                                                 jsonb_loads(rows[n].aggregate_data)),
                        src |-> <<rows[n].call, rows[n].idx>>]]]
    /\ UNCHANGED <<setup, pool, timestamp_convert, pools, tables, events, nextSeq,
                   snapshots, nextSnapSeq, commits>>
    /\ UNCHANGED otherVars

(***************************************************************************)
(* The storage engine: any callers, any operations, any interleaving.      *)
(***************************************************************************)
\* every event class has been declared (at import time)
AllRegistered == [n \in RegNames \cup {"Paid"} |-> 1]
ReplayIdle == [pc |-> "idle"]
DeclIdle == [pc |-> "idle"]

StorageInit ==
    /\ setup = 0
    /\ pool = 0
    /\ timestamp_convert = "None"
    /\ pools = <<>>
    /\ tables = FALSE
    /\ events = {}
    /\ nextSeq = 1
    /\ snapshots = {}
    /\ nextSnapSeq = 1
    /\ calls = <<>>
    /\ commits = <<>>
    /\ closes = 0

Init ==
    /\ StorageInit
    /\ by_name = AllRegistered
    /\ regLog = <<>>
    /\ replay = ReplayIdle
    /\ decl = DeclIdle

\* the steps of __get_pool, get_cursor and close, whatever the database does
CursorNext ==
    \/ \E c \in 1..Len(calls) : get_pool_enter(c)
    \/ \E c \in 1..Len(calls), ok \in BOOLEAN : get_pool_create(c, ok)
    \/ \E c \in 1..Len(calls), outcome \in {"native", "fallback", "error"} :
           get_pool_bootstrap(c, outcome)
    \/ \E c \in 1..Len(calls) : get_cursor_begin(c)
    \/ \E c \in 1..Len(calls), ok \in BOOLEAN : get_cursor_commit(c, ok)
    \/ \E c \in 1..Len(calls) : get_cursor_rollback(c)
    \/ \E c \in 1..Len(calls) : get_cursor_release(c)
    \/ \E c \in 1..Len(calls), cls \in {"Exception", "BaseException"} : body_cancel(c, cls)
    \/ close

\* the same steps with a database that accepts the connection and the bootstrap,
\* and an engine that is not closed
ReliableCursorNext ==
    \/ \E c \in 1..Len(calls) : get_pool_enter(c)
    \/ \E c \in 1..Len(calls) : get_pool_create(c, TRUE)
    \/ \E c \in 1..Len(calls) : get_pool_bootstrap(c, "native")
    \/ \E c \in 1..Len(calls) : get_cursor_begin(c)
    \/ \E c \in 1..Len(calls), ok \in BOOLEAN : get_cursor_commit(c, ok)
    \/ \E c \in 1..Len(calls) : get_cursor_rollback(c)
    \/ \E c \in 1..Len(calls) : get_cursor_release(c)
    \/ \E c \in 1..Len(calls), cls \in {"Exception", "BaseException"} : body_cancel(c, cls)

EventsNext(max) ==
    \/ \E p \in Callers, args \in EventLists : call(p, "save_events", args, max)
    \/ \E p \in Callers : call(p, "load_events", <<>>, max)
    \/ \E c \in 1..Len(calls), ok \in BOOLEAN : save_events_insert(c, ok)
    \/ \E c \in 1..Len(calls) : load_events_select(c)

SnapshotsNext(max) ==
    \/ \E p \in Callers, args \in SnapLists : call(p, "save_snapshots", args, max)
    \/ \E p \in Callers : call(p, "load_snapshots", <<>>, max)
    \/ \E c \in 1..Len(calls), ok \in BOOLEAN : save_snapshots_upsert(c, ok)
    \/ \E c \in 1..Len(calls) : load_snapshots_select(c)

\* the storage engine with its pool lifecycle: any operation, any failure, any close
Next == EventsNext(MaxPoolCalls) \/ SnapshotsNext(MaxPoolCalls) \/ CursorNext

Spec == Init /\ [][Next]_vars

\* the events that are queried, and the queries
PaidLists == {<<Paid(5), Paid(15), Paid(25)>>, <<Created, Renamed, Paid(1)>>}
OnAmount(fpred) == Where(<<Field("amount", fpred)>>)
Queries ==
    {Is(<<"Paid">>), Is(<<"Created", "Paid">>), Is(<<>>), Where(<<>>)}
    \cup {OnAmount(f) : f \in {Eq(PyInt(15)), NotEq(PyInt(15)), Less(PyInt(15)),
                               More(PyInt(15)), LessEq(PyInt(15)), MoreEq(PyInt(15)),
                               Between(PyInt(10), PyInt(20)), Between(PyInt(5), PyInt(15)),
                               OneOf(<<PyInt(5), PyInt(25)>>), OneOf(<<>>),
                               Eq(PyBool(TRUE)),
                               Eq(PyDecimal(15)), Eq(PyNone),
                               Between(PyInt(10), PyDecimal(20)),
                               Between(PyDecimal(10), PyInt(20)),
                               OneOf(<<PyInt(5), PyDecimal(25)>>)}}
    \cup {Where(<<Field("name", Eq(PyStr("X")))>>),
          Where(<<Field("name", Less(PyStr("Y")))>>),
          Where(<<Field("amount", MoreEq(PyInt(15))), Field("id", Eq(PyStr("a1")))>>),
          Where(<<Field("at", Less(PyDatetime(10, 2)))>>),
          Where(<<Field("at", Between(PyDatetime(10, 0), PyDatetime(20, 2))),
                  Field("amount", Eq(PyInt(15)))>>)}

\* the queried event log: appends and filtered loads of two callers, on a
\* database with or without the plpython3u extension
NextQuery ==
    \/ \E p \in Callers, args \in PaidLists : call(p, "save_events", args, MaxQueryCalls)
    \/ \E p \in Callers, query \in Queries :
           call(p, "load_events", <<query>>, MaxQueryCalls)
    \/ \E c \in 1..Len(calls) : save_events_insert(c, TRUE)
    \/ \E c \in 1..Len(calls) : load_events_select(c)
    \/ \E c \in 1..Len(calls) : get_pool_enter(c)
    \/ \E c \in 1..Len(calls) : get_pool_create(c, TRUE)
    \/ \E c \in 1..Len(calls), outcome \in {"native", "fallback"} :
           get_pool_bootstrap(c, outcome)
    \/ \E c \in 1..Len(calls) : get_cursor_begin(c)
    \/ \E c \in 1..Len(calls) : get_cursor_commit(c, TRUE)
    \/ \E c \in 1..Len(calls) : get_cursor_rollback(c)
    \/ \E c \in 1..Len(calls) : get_cursor_release(c)

SpecQuery == Init /\ [][NextQuery]_vars

\* the event log: appends and loads of two callers
NextEvents == EventsNext(MaxCalls) \/ ReliableCursorNext

SpecEvents == Init /\ [][NextEvents]_vars

\* the snapshot table: saves and loads of two callers
NextSnapshots == SnapshotsNext(MaxSnapCalls) \/ ReliableCursorNext

SpecSnapshots == Init /\ [][NextSnapshots]_vars

(***************************************************************************)
(* Aggregate replay: AggregateBase.from_events, load, load_all, apply_event *)
(* for an aggregate class Account whose creation event is Created.         *)
(***************************************************************************)
MaxReplayLen == 3    \* events in one replayed list
MaxLoaderLen == 2    \* events per id in a loader's mapping

RenamedY == [type |-> "Renamed", data |-> [id |-> PyStr("a1"), name |-> PyStr("Y")]]
\* class Imported(Created): an instance of the creation event with no handler
Imported == [type |-> "Imported", data |-> [id |-> PyStr("a1")]]
ReplayEvents == {Created, Renamed, RenamedY, Imported, Priced}

ListsUpTo(n) == UNION {[1..m -> ReplayEvents] : m \in 0..n}

\* the event classes, each with its base classes (its method resolution order)
Mro(type) == IF type = "Imported" THEN {"Imported", "Created"} ELSE {type}
isinstance(evt, cls) == cls \in Mro(evt.type)

\* Account.__agg_create__ and Account.__agg_events__ (filled by
\* EventHandler.__set_name__ for each @handle_event method)
agg_create == "Created"
\* a dispatch table that also has the subclasses of the handled event classes
agg_events_ByMro ==
    [Created |-> "on_created", Renamed |-> "on_renamed", Imported |-> "on_created"]
agg_events == [Created |-> "on_created", Renamed |-> "on_renamed"]

\* cls.__new__(cls): an instance with no attribute set
Unset == <<"unset">>
Blank == [id |-> Unset, name |-> Unset]

\* the handler methods of Account
call_handler(name, self, evt) ==
    IF name = "on_created" THEN [self EXCEPT !.id = evt.data.id]
    ELSE [self EXCEPT !.name = evt.data.name]

\* an apply_event that finds the handler and does not call it
apply_event_NoCall(self, event) == self

\* apply_event, lines 89-90, for an event whose type is in the dispatch table
apply_event(self, event) == call_handler(agg_events[event.type], self, event)

\* apply_event, line 89: the lookup raises KeyError
apply_event_raises(event) == event.type \notin DOMAIN agg_events

\* a first-event test that accepts any event
InvalidFirst_Never(evts) == FALSE

\* from_events, lines 120-123 (and load, lines 102-105): the list is refused
InvalidFirst(evts) == evts = <<>> \/ ~isinstance(evts[1], agg_create)

\* the loader's mapping id -> events, as the list of its items in dict order
Ids == <<"a1", "a2">>
LoaderValues == {<<"absent">>} \cup {<<"events", l>> : l \in ListsUpTo(MaxLoaderLen)}
Mappings == [1..Len(Ids) -> LoaderValues]
RECURSIVE Items(_, _)
Items(mapping, n) ==
    IF n > Len(Ids) THEN <<>>
    ELSE (IF mapping[n][1] = "absent" THEN <<>> ELSE <<mapping[n][2]>>)
         \o Items(mapping, n + 1)
\* dict.get(agg_id, [])
Get(mapping, n) == IF mapping[n][1] = "absent" THEN <<>> ELSE mapping[n][2]

Replaying(op, queue, mapping) ==
    [pc |-> IF queue = <<>> THEN "done" ELSE "check", op |-> op, queue |-> queue,
     mapping |-> mapping, i |-> 0, loaded |-> Unset, handled |-> <<>>,
     out |-> <<>>, raised |-> "none"]

\* Account.from_events(events)
from_events ==
    /\ replay.pc = "idle"
    /\ \E evts \in ListsUpTo(MaxReplayLen) :
          replay' = Replaying("from_events", <<evts>>, <<>>)
    /\ UNCHANGED <<storageVars, by_name, regLog, decl>>

\* a caller applies events itself to an instance it made: one apply_event call
\* (lines 88-90) per event, on Account.__new__(Account)
apply_events ==
    /\ replay.pc = "idle"
    /\ \E evts \in ListsUpTo(MaxReplayLen) :
          replay' = [Replaying("apply_event", <<evts>>, <<>>)
                        EXCEPT !.pc = "fold", !.loaded = Blank]
    /\ UNCHANGED <<storageVars, by_name, regLog, decl>>

\* Account.load(storage, agg_id), line 101: the loader's events for the id
load ==
    /\ replay.pc = "idle"
    /\ \E n \in 1..Len(Ids), mapping \in Mappings :
          replay' = Replaying("load", <<Get(mapping, n)>>, mapping)
    /\ UNCHANGED <<storageVars, by_name, regLog, decl>>

\* Account.load_all(storage, ids), lines 115-116: from_events over events.values()
load_all ==
    /\ replay.pc = "idle"
    /\ \E mapping \in Mappings :
          replay' = Replaying("load_all", Items(mapping, 1), mapping)
    /\ UNCHANGED <<storageVars, by_name, regLog, decl>>

\* from_events, lines 120-124 (load, lines 102-106): refuse the list with
\* ValueError, or make the blank instance
replay_check ==
    /\ replay.pc = "check"
    /\ IF InvalidFirst(Head(replay.queue))
       THEN replay' = [replay EXCEPT !.pc = "done", !.raised = "ValueError",
                                     !.loaded = Unset]
       ELSE replay' = [replay EXCEPT !.pc = "fold", !.i = 0, !.loaded = Blank]
    /\ UNCHANGED <<storageVars, by_name, regLog, decl>>

\* from_events, lines 125-126 (load, lines 107-108): apply the next event
replay_apply ==
    /\ replay.pc = "fold"
    /\ replay.i < Len(Head(replay.queue))
    /\ LET evt == Head(replay.queue)[replay.i + 1]
       IN IF apply_event_raises(evt)
          THEN replay' = [replay EXCEPT !.pc = "done", !.raised = "KeyError"]
          ELSE replay' = [replay EXCEPT !.i = @ + 1,
                              !.loaded = apply_event(@, evt),
                              !.handled = Append(@, <<agg_events[evt.type], replay.i + 1>>)]
    /\ UNCHANGED <<storageVars, by_name, regLog, decl>>

\* from_events, line 127 (load, line 109): return the instance; load_all goes on
\* with the next value of the mapping
replay_return ==
    /\ replay.pc = "fold"
    /\ replay.i = Len(Head(replay.queue))
    /\ replay' = [replay EXCEPT !.pc = IF Len(replay.queue) = 1 THEN "done" ELSE "check",
                                !.queue = IF Len(@) = 1 THEN @ ELSE Tail(@),
                                !.out = Append(@, replay.loaded)]
    /\ UNCHANGED <<storageVars, by_name, regLog, decl>>

InitReplay ==
    /\ StorageInit
    /\ by_name = AllRegistered
    /\ regLog = <<>>
    /\ replay = ReplayIdle
    /\ decl = DeclIdle

NextReplay ==
    \/ from_events
    \/ apply_events
    \/ load
    \/ load_all
    \/ replay_check
    \/ replay_apply
    \/ replay_return

SpecReplay == InitReplay /\ [][NextReplay]_vars

(***************************************************************************)
(* The registry of event classes: EventMeta.__new__ and EventMeta.__by_name *)
(***************************************************************************)
MaxDefs == 4    \* class statements executed in one behaviour

\* two class bodies that may be given under one name
ClassBodies == {"A", "B"}

\* a membership test that finds nothing
Registered_Never(name) == FALSE

\* EventMeta.__new__, line 26: name in cls.__by_name
Registered(name) == by_name[name] # 0

\* a class statement `class <name>(EventBase): <body>` runs EventMeta.__new__,
\* lines 26-30; ok: whether SchemaMeta.__new__ accepts the class body (line 28).
\* The class object made by the n-th class statement is numbered n.
define_event(name, body, ok) ==
    /\ Len(regLog) < MaxDefs
    /\ LET cls == Len(regLog) + 1
       IN IF Registered(name)
          THEN /\ regLog' = Append(regLog, [name |-> name, body |-> body, cls |-> cls,
                                            raised |-> "TypeError"])
               /\ UNCHANGED by_name
          ELSE IF ~ok
          THEN /\ regLog' = Append(regLog, [name |-> name, body |-> body, cls |-> cls,
                                            raised |-> "SchemaError"])
               /\ UNCHANGED by_name
          ELSE /\ regLog' = Append(regLog, [name |-> name, body |-> body, cls |-> cls,
                                            raised |-> "none"])
               /\ by_name' = [by_name EXCEPT ![name] = cls]
    /\ UNCHANGED <<storageVars, replay, decl>>

\* after the import of fete.core.event: only EventBase is registered
InitRegistry ==
    /\ StorageInit
    /\ by_name = [n \in RegNames |-> IF n = "EventBase" THEN MaxDefs + 1 ELSE 0]
    /\ regLog = <<>>
    /\ replay = ReplayIdle
    /\ decl = DeclIdle

NextRegistry ==
    \E name \in RegNames, body \in ClassBodies, ok \in BOOLEAN : define_event(name, body, ok)

SpecRegistry == InitRegistry /\ [][NextRegistry]_vars

(***************************************************************************)
(* The declaration of an aggregate class: AggregateMeta.__new__ and        *)
(* AggregateMeta.__init__ with its three validations.                      *)
(***************************************************************************)
\* what a class body may give: __agg_mixin__, __agg_id__ ("unset": not given),
\* the fields of its schema, __agg_create__ ("unset": no such attribute), the
\* event classes of its @handle_event methods, and its load_events attribute
\* ("abstract": the one inherited from AggregateBase)
ClassAttrs ==
    [agg_mixin : BOOLEAN,
     agg_id : {"unset", "", "id", "key"},
     schema : {{"id", "name"}, {"name"}},
     agg_create : {"unset", "Created"},
     handlers : {{}, {"Created"}, {"Renamed"}, {"Created", "Renamed"}},
     load_events : {"None", "abstract", "not callable", "classmethod"}]

\* AggregateMeta.__new__, lines 34-37: the defaults of a non-mixin class;
\* EventHandler.__set_name__ then fills __agg_events__ (event.py, line 65)
AggregateMeta_new(attrs) ==
    IF attrs.agg_mixin
    THEN attrs
    ELSE [attrs EXCEPT !.agg_id = IF @ = "unset" THEN "id" ELSE @]

\* _validate_aggregate_id, line 50
aggregate_id_valid(cls) == cls.agg_id # "" /\ cls.agg_id \in cls.schema

\* a validation that accepts a creation event without a handler
creation_event_valid_NoHandlerTest(cls) == cls.agg_create # "unset"

\* _validate_creation_event, lines 57 and 61
creation_event_valid(cls) ==
    cls.agg_create # "unset" /\ cls.agg_create \in cls.handlers

\* _validate_load_events_method, lines 69-74
load_events_method_valid(cls) ==
    cls.load_events \notin {"None", "abstract"} /\ cls.load_events # "not callable"

\* the class statement `class <name>(AggregateBase): <attrs>`: __new__ makes the
\* class object, __init__ (line 43) validates it unless it is a mixin
declare_aggregate(attrs) ==
    /\ decl.pc = "idle"
    /\ LET cls == AggregateMeta_new(attrs)
       IN decl' = [pc |-> IF cls.agg_mixin THEN "done" ELSE "validate_aggregate_id",
                   attrs |-> attrs, cls |-> cls, raised |-> "none"]
    /\ UNCHANGED <<storageVars, by_name, regLog, replay>>

Validation(pc, valid, next) ==
    /\ decl.pc = pc
    /\ decl' = IF valid
               THEN [decl EXCEPT !.pc = next]
               ELSE [decl EXCEPT !.pc = "done", !.raised = "AggregateDefinitionError"]
    /\ UNCHANGED <<storageVars, by_name, regLog, replay>>

\* AggregateMeta.__init__, line 44
validate_aggregate_id ==
    Validation("validate_aggregate_id", aggregate_id_valid(decl.cls),
               "validate_creation_event")

\* AggregateMeta.__init__, line 45
validate_creation_event ==
    Validation("validate_creation_event", creation_event_valid(decl.cls),
               "validate_load_events_method")

\* AggregateMeta.__init__, line 46
validate_load_events_method ==
    Validation("validate_load_events_method", load_events_method_valid(decl.cls),
               "done")

InitAggregates ==
    /\ StorageInit
    /\ by_name = AllRegistered
    /\ regLog = <<>>
    /\ replay = ReplayIdle
    /\ decl = DeclIdle

NextAggregates ==
    \/ \E attrs \in ClassAttrs : declare_aggregate(attrs)
    \/ validate_aggregate_id
    \/ validate_creation_event
    \/ validate_load_events_method

SpecAggregates == InitAggregates /\ [][NextAggregates]_vars


(***************************************************************************)
(* Properties of the scoped transaction and of the pool.                   *)
(***************************************************************************)
HasStmt(c, stmt) == \E n \in 1..Len(calls[c].stmts) : calls[c].stmts[n] = stmt
Released(c) == At(c, "release")

\* C1: every operation that has executed BEGIN releases its connection with the
\* transaction either committed (the body completed: COMMIT, no ROLLBACK, nothing
\* raised) or rolled back (the body failed: ROLLBACK, no COMMIT, the body's error
\* raised), and never with the transaction still open.
C1_CommitXorRollback ==
    \A c \in 1..Len(calls) :
        Released(c) =>
            /\ calls[c].txn # "open"
            /\ calls[c].body = "ok" =>
                   /\ calls[c].txn = "committed"
                   /\ calls[c].stmts = <<"BEGIN", "COMMIT">>
                   /\ calls[c].raised = "none"
            /\ calls[c].body # "ok" =>
                   /\ calls[c].txn = "rolledback"
                   /\ calls[c].stmts = <<"BEGIN", "ROLLBACK">>
                   /\ calls[c].raised \in {"TypeError", "DatabaseError", "KeyError",
                                           "CancelledError"}

\* C2: an operation cancelled inside its scoped transaction has executed ROLLBACK
\* by the time its connection is released.
C2_CancelRollsBack ==
    \A c \in 1..Len(calls) :
        (Released(c) /\ calls[c].body = "cancelled") => HasStmt(c, "ROLLBACK")

NoClose == \A n \in 1..Len(pools) : pools[n].state = "open"
HoldsPool(c) == calls[c].pc \in {"begin", "body", "rollback", "release"}
Creating(c) == calls[c].pc \in {"create_pool", "bootstrap"}
PoolsWith(outcome) == {n \in 1..Len(pools) : pools[n].bootstrap = outcome}

\* C4 as stated: while the engine has not been closed, at most one pool is created,
\* the schema bootstrap is executed at most once (once, as soon as a caller has a
\* pool), and every caller that has a pool has that one pool.
C4_OnePoolOneBootstrap ==
    NoClose =>
        /\ Len(pools) <= 1
        /\ Cardinality(PoolsWith("ok") \cup PoolsWith("failed")) <= 1
        /\ \A c \in 1..Len(calls) :
               HoldsPool(c) => calls[c].pool = 1 /\ pools[1].bootstrap = "ok"

\* C4 as amended: while the engine has not been closed, pool creation and bootstrap
\* run one at a time; every pool but the last has failed its bootstrap, so at most
\* one bootstrap has succeeded; and every caller that has a pool has the memoized
\* pool, whose bootstrap succeeded.
C4_OnePoolPerFailedBootstrap ==
    NoClose =>
        /\ Cardinality({c \in 1..Len(calls) : Creating(c)}) <= 1
        /\ \A n \in 1..Len(pools) : n < Len(pools) => pools[n].bootstrap = "failed"
        /\ Cardinality(PoolsWith("ok")) <= 1
        /\ \A c \in 1..Len(calls) :
               HoldsPool(c) => calls[c].pool = pool /\ pools[pool].bootstrap = "ok"

\* C4, witness: the first caller's bootstrap failed, the second caller, which was
\* waiting for the lock, created and bootstrapped a second pool and is using it
C4_Witness ==
    /\ Len(pools) = 2
    /\ NoClose
    /\ pools[1].bootstrap = "failed"
    /\ pools[2].bootstrap = "ok"
    /\ \E c \in 1..Len(calls) : calls[c].pc = "body" /\ calls[c].pool = 2

(***************************************************************************)
(* Properties of the event log.                                            *)
(***************************************************************************)
Failed(c) == calls[c].raised # "none"
Returned(c) == calls[c].pc = "done" /\ calls[c].raised = "none"
\* a load whose SELECT has run: its result is what the caller gets
Loaded(c, kind) ==
    /\ calls[c].kind = kind
    /\ ~Failed(c)
    /\ calls[c].pc = "done" \/ (calls[c].pc \in {"body", "release"} /\ calls[c].i = 1)
Sources(c) == {calls[c].result[n].src : n \in 1..Len(calls[c].result)}

\* C3: no event of an append call that failed (while serializing or inserting an
\* event, or at COMMIT) is in the event log or in the result of any load, also
\* not the events inserted before the failure; and every step leaves the committed
\* event records as they were, a COMMIT adding the records of its own call only.
C3_AppendAllOrNothing ==
    /\ [](\A c \in 1..Len(calls) :
             Failed(c) =>
                 /\ \A r \in events : r.call # c
                 /\ \A l \in 1..Len(calls) : \A src \in Sources(l) : src[1] # c)
    /\ [][/\ events \subseteq events'
          /\ \A r \in events' \ events :
                 /\ calls[r.call].pc = "body"
                 /\ calls'[r.call].txn = "committed"
                 /\ calls'[r.call].raised = "none"]_vars

\* C3, witness: an append call failed at its second event, after its first event
\* was inserted, while the log holds the records of an earlier append
C3_Witness ==
    \E c \in 1..Len(calls) :
        /\ calls[c].pc = "rollback"
        /\ calls[c].kind = "save_events"
        /\ calls[c].body = "error"
        /\ Len(calls[c].pending) = 1
        /\ events # {}

\* C5: the result of a load with no predicate consists of events of append calls
\* that committed, each event as it was passed (a), none twice (b), with all the
\* events of every append call that had returned before the load was issued (c),
\* the events of one call in the order they were passed and the events of a call
\* that returned before another was issued before the other's (d).
C5_LoadReturnsAppends ==
    \A l \in 1..Len(calls) :
        Loaded(l, "load_events") =>
            LET res == calls[l].result
            IN /\ \A n \in 1..Len(res) :
                      /\ calls[res[n].src[1]].kind = "save_events"
                      /\ Returned(res[n].src[1]) \/ calls[res[n].src[1]].txn = "committed"
                      /\ res[n].evt = calls[res[n].src[1]].args[res[n].src[2]]
               /\ \A n, m \in 1..Len(res) : n # m => res[n].src # res[m].src
               /\ \A c \in calls[l].before :
                      calls[c].kind = "save_events" =>
                          \A k \in 1..Len(calls[c].args) : <<c, k>> \in Sources(l)
               /\ \A n, m \in 1..Len(res) :
                      n < m =>
                          /\ res[n].src[1] = res[m].src[1] => res[n].src[2] < res[m].src[2]
                          /\ Returned(res[m].src[1]) =>
                                 res[m].src[1] \notin calls[res[n].src[1]].before

\* C5, witness: a load has returned the three events of two append calls, the
\* second of which was issued after the first had returned
C5_Witness ==
    \E l \in 1..Len(calls) :
        /\ Returned(l)
        /\ calls[l].kind = "load_events"
        /\ Len(calls[l].result) = 3
        /\ \E c, d \in calls[l].before :
               /\ c \in calls[d].before
               /\ Len(calls[c].args) = 2
               /\ {<<c, 1>>, <<c, 2>>, <<d, 1>>} = Sources(l)

(***************************************************************************)
(* Properties of the snapshot table.                                       *)
(***************************************************************************)
RECURSIVE SaveLog(_)
\* the snapshots of the save calls that committed, in the order they were saved
SaveLog(n) ==
    IF n = 0 THEN <<>>
    ELSE SaveLog(n - 1) \o
         (IF calls[commits[n]].kind = "save_snapshots" THEN calls[commits[n]].args
          ELSE <<>>)
Saved == SaveLog(Len(commits))
LastSave(id) ==
    Saved[CHOOSE n \in 1..Len(Saved) :
              /\ snap_id(Saved[n]) = id
              /\ \A m \in (n + 1)..Len(Saved) : snap_id(Saved[m]) # id]

\* C6: the snapshot table holds a row for an identity "{TypeName}:{id}" exactly
\* when a snapshot of that identity has been saved by a call that committed, one
\* row only, and its payload is the payload of the most recent of these saves.
C6_OneRowLastPayload ==
    /\ \A r \in snapshots : \E n \in 1..Len(Saved) : snap_id(Saved[n]) = r.aggregate_id
    /\ \A n \in 1..Len(Saved) :
           LET rows == {r \in snapshots : r.aggregate_id = snap_id(Saved[n])}
           IN /\ Cardinality(rows) = 1
              /\ \A r \in rows :
                     /\ r.aggregate_data = pgjson_dumps(LastSave(r.aggregate_id).data)
                     /\ r.aggregate_type = LastSave(r.aggregate_id).type

\* C6, witness: identity Account:a1 was saved with name X and then with name Y,
\* identity Account:a2 was saved too, and the table holds two rows
C6_Witness ==
    /\ Cardinality(snapshots) = 2
    /\ \E n, m \in 1..Len(Saved) :
           /\ n < m
           /\ Saved[n] = AccountA1X
           /\ Saved[m] = AccountA1Y
           /\ LastSave("Account:a1") = AccountA1Y

(***************************************************************************)
(* Properties of the replay.                                               *)
(***************************************************************************)
Replayed == Head(replay.queue)
AllHandled(evts) == \A n \in 1..Len(evts) : evts[n].type \in {"Created", "Renamed"}
FirstIsCreation(evts) == evts # <<>> /\ evts[1].type \in {"Created", "Imported"}

\* C7: from_events, and load on the loader's list for the id, given an empty
\* list or a list whose first event is no instance of the creation event, end
\* with ValueError (the code's InvalidAggregateState), having called no handler
\* and returning no instance.
C7_InvalidInputRefused ==
    (replay.pc # "idle" /\ replay.op \in {"from_events", "load"}
        /\ ~FirstIsCreation(Replayed)) =>
        /\ replay.pc \in {"check", "done"}
        /\ replay.handled = <<>>
        /\ replay.out = <<>>
        /\ replay.loaded = Unset
        /\ replay.pc = "done" => replay.raised = "ValueError"

\* C7, witness: from_events has refused a list that starts with a Renamed event,
\* and load has refused an id the loader has no events for
C7_Witness ==
    /\ replay.pc = "done"
    /\ replay.raised = "ValueError"
    /\ \/ replay.op = "from_events" /\ Len(Replayed) = 2 /\ Replayed[1] = Renamed
       \/ replay.op = "load" /\ Replayed = <<>>

RECURSIVE FoldLeft(_, _)
\* the state after the handlers of evts, in list order, from state
FoldLeft(state, evts) ==
    IF evts = <<>> THEN state
    ELSE FoldLeft(IF Head(evts).type = "Created"
                  THEN [state EXCEPT !.id = Head(evts).data.id]
                  ELSE [state EXCEPT !.name = Head(evts).data.name],
                  Tail(evts))
Handlers(evts, n) ==
    [k \in 1..n |-> <<IF evts[k].type = "Created" THEN "on_created" ELSE "on_renamed", k>>]

\* C8: for a list that starts with the creation event and whose events all have
\* handlers, from_events raises nothing, has after i events the left fold of the
\* first i events from the blank instance, with the handler of each of them
\* called once, in list order, and returns the fold of the whole list; so
\* [Created{id:a1}, Renamed{id:a1,name:X}] gives id=a1, name=X, and a later
\* Renamed overrides the name.
C8_FromEventsIsLeftFold ==
    (replay.pc # "idle" /\ replay.op = "from_events"
        /\ FirstIsCreation(Replayed) /\ AllHandled(Replayed)) =>
        /\ replay.raised = "none"
        /\ replay.pc = "fold" =>
               /\ replay.loaded = FoldLeft(Blank, SubSeq(Replayed, 1, replay.i))
               /\ replay.handled = Handlers(Replayed, replay.i)
        /\ replay.pc = "done" =>
               /\ replay.out = <<FoldLeft(Blank, Replayed)>>
               /\ replay.handled = Handlers(Replayed, Len(Replayed))
               /\ Replayed = <<Created, Renamed>> =>
                      replay.out[1] = [id |-> PyStr("a1"), name |-> PyStr("X")]
               /\ Replayed = <<Created, Renamed, RenamedY>> =>
                      replay.out[1] = [id |-> PyStr("a1"), name |-> PyStr("Y")]

\* C8, witness: from_events has returned the aggregate of
\* [Created{id:a1}, Renamed{name:X}, Renamed{name:Y}]
C8_Witness ==
    /\ replay.pc = "done"
    /\ replay.op = "from_events"
    /\ Replayed = <<Created, Renamed, RenamedY>>
    /\ replay.out = <<[id |-> PyStr("a1"), name |-> PyStr("Y")]>>

Replayable(evts) == FirstIsCreation(evts) /\ AllHandled(evts)
NonEmptyItems(mapping) ==
    {n \in 1..Len(Ids) : mapping[n][1] = "events" /\ mapping[n][2] # <<>>}

\* C9: load_all does not fail because an id has no events: when every id the
\* loader gives events for has a list that replays, load_all raises nothing and
\* returns one aggregate for each of these ids, whatever ids are absent from the
\* mapping or mapped to an empty list.
C9_LoadAllOmitsEmpty ==
    (replay.pc = "done" /\ replay.op = "load_all"
        /\ \A n \in NonEmptyItems(replay.mapping) : Replayable(replay.mapping[n][2])) =>
        /\ replay.raised = "none"
        /\ Len(replay.out) = Cardinality(NonEmptyItems(replay.mapping))

(***************************************************************************)
(* Properties of the event registry.                                       *)
(***************************************************************************)
FirstUnder(name) ==
    CHOOSE n \in 1..Len(regLog) :
        /\ regLog[n].name = name
        /\ regLog[n].raised = "none"
        /\ \A m \in 1..(n - 1) : ~(regLog[m].name = name /\ regLog[m].raised = "none")
RegisteredBefore(n) ==
    \/ regLog[n].name = "EventBase"
    \/ \E m \in 1..(n - 1) : regLog[m].name = regLog[n].name /\ regLog[m].raised = "none"

\* C10: a class statement under a name that is already registered raises
\* TypeError (the code's DuplicateDefinition) whatever its class body and that of
\* the registered class are, and only such a statement does; it leaves the
\* registry as it was; and a name maps to the first class registered under it.
C10_WriteOncePerName ==
    /\ [](/\ \A n \in 1..Len(regLog) :
               (regLog[n].raised = "TypeError") <=> RegisteredBefore(n)
          /\ \A n \in 1..Len(regLog) :
               regLog[n].raised = "none" =>
                   by_name[regLog[n].name] = regLog[FirstUnder(regLog[n].name)].cls)
    /\ [][(Len(regLog') > Len(regLog) /\ regLog'[Len(regLog')].raised = "TypeError")
              => by_name' = by_name]_vars

\* C10, witness: Created was declared with body A, then again with body B, which
\* raised TypeError, and in another order: Renamed with body B, then with body A
C10_Witness ==
    /\ Len(regLog) = 4
    /\ regLog[1].name = "Created" /\ regLog[1].body = "A" /\ regLog[1].raised = "none"
    /\ regLog[2].name = "Created" /\ regLog[2].body = "B" /\ regLog[2].raised = "TypeError"
    /\ regLog[3].name = "Renamed" /\ regLog[3].body = "B" /\ regLog[3].raised = "none"
    /\ regLog[4].name = "Renamed" /\ regLog[4].body = "A" /\ regLog[4].raised = "TypeError"
    /\ by_name["Created"] = 1
    /\ by_name["Renamed"] = 3

\* C11: the declaration of a non-mixin aggregate class succeeds exactly when its
\* id field name is non-empty and in its schema, it declares a creation event
\* that has a handler in its dispatch table, and its loader is there, concrete
\* and callable; otherwise it raises AggregateDefinitionError, so that no class
\* statement that completes leaves a non-mixin class failing one of the three.
C11_ValidationIsFatal ==
    (decl.pc = "done" /\ ~decl.cls.agg_mixin)
    => LET cls == decl.cls
           idOk == cls.agg_id # "" /\ cls.agg_id \in cls.schema
           createOk == cls.agg_create = "Created" /\ "Created" \in cls.handlers
           loaderOk == cls.load_events = "classmethod"
       IN /\ decl.raised \in {"none", "AggregateDefinitionError"}
          /\ decl.raised = "none" <=> (idOk /\ createOk /\ loaderOk)

\* a class whose creation event has no handler (only another event has one) is refused
C11_Witness ==
    /\ decl.pc = "done" /\ ~decl.cls.agg_mixin
    /\ decl.raised = "AggregateDefinitionError"
    /\ decl.cls.agg_id = "id" /\ "id" \in decl.cls.schema
    /\ decl.cls.agg_create = "Created" /\ decl.cls.handlers = {"Renamed"}
    /\ decl.cls.load_events = "classmethod"

\* C14: close() runs only while the lock of pool creation is free (no __get_pool
\* is between taking and releasing it); it closes the memoized pool, once, and
\* leaves the engine without a pool; a close() that finds no pool changes nothing
\* and closes no pool; no pool is ever closed twice and a closed pool is never the
\* memoized one.
C14_CloseIdempotent ==
    /\ [](\A p \in 1..Len(pools) :
              /\ pools[p].closed <= 1
              /\ pools[p].state = "closed" => (pool # p /\ pools[p].closed = 1))
    /\ [][closes' # closes =>
            /\ setup = 0 /\ setup' = 0
            /\ pool' = 0
            /\ IF pool = 0
               THEN pools' = pools
               ELSE /\ pools[pool].state = "open"
                    /\ pools' = [pools EXCEPT ![pool].state = "closed", ![pool].closed = 1]
            /\ UNCHANGED <<timestamp_convert, tables, events, nextSeq, snapshots,
                           nextSnapSeq, calls, commits>>]_vars

\* a second close() after a pool was created, bootstrapped and closed
C14_Witness ==
    /\ closes = 2
    /\ pool = 0
    /\ \E p \in 1..Len(pools) : pools[p].closed = 1 /\ pools[p].bootstrap = "ok"

(***************************************************************************)
(* Properties of apply_event.                                              *)
(***************************************************************************)
CreationHandler == agg_events[agg_create]

\* C16: on one instance (the one from_events or load builds, or one a caller
\* applies events to), the first handler
\* called is the creation event's and it is called at most once: no event other
\* than the creation event is applied to the blank instance and no creation
\* event is applied to an instance that has been created.
C16_MaterializedOnce ==
    (replay.pc # "idle" /\ replay.op \in {"from_events", "load", "apply_event"}) =>
        /\ replay.handled # <<>> => replay.handled[1][1] = CreationHandler
        /\ \A n \in 2..Len(replay.handled) : replay.handled[n][1] # CreationHandler

Unhandled(evts) == {n \in 1..Len(evts) : evts[n].type \notin {"Created", "Renamed"}}
FirstUnhandled(evts) == CHOOSE n \in Unhandled(evts) : \A m \in Unhandled(evts) : n <= m

\* C17: when a caller applies a list of events, or from_events folds a list that
\* starts with an instance of the creation event, and the list has an event
\* whose class is not in the dispatch table, apply_event raises
\* KeyError (the code's UnhandledEventType) at the first such event: the
\* handlers of the events before it have been called, none for it or after it,
\* the instance is as those handlers left it, and from_events returns nothing.
C17_UnhandledEventStopsFold ==
    (replay.pc # "idle" /\ replay.op \in {"from_events", "apply_event"}
        /\ (replay.op = "from_events" => FirstIsCreation(Replayed))
        /\ Unhandled(Replayed) # {}) =>
        LET k == FirstUnhandled(Replayed)
        IN /\ replay.i < k
           /\ replay.out = <<>>
           /\ replay.pc = "fold" => replay.raised = "none"
           /\ replay.pc = "done" =>
                  /\ replay.raised = "KeyError"
                  /\ replay.i = k - 1
                  /\ replay.handled = Handlers(Replayed, k - 1)
                  /\ replay.loaded = FoldLeft(Blank, SubSeq(Replayed, 1, k - 1))

\* C17, witness: the fold of [Created, Renamed, Priced] has stopped at Priced
C17_Witness ==
    /\ replay.pc = "done"
    /\ replay.op = "from_events"
    /\ Replayed = <<Created, Renamed, Priced>>
    /\ replay.raised = "KeyError"
    /\ replay.loaded = [id |-> PyStr("a1"), name |-> PyStr("X")]

(***************************************************************************)
(* Properties of concurrent appends.                                       *)
(***************************************************************************)
\* the part of a load's result that comes from the append call c
FromCall(l, c) ==
    LET IsFrom(item) == item.src[1] = c
    IN SelectSeq(calls[l].result, IsFrom)

\* C18: whatever the interleaving of the append calls, the result of a load with
\* no predicate has of every append call either nothing or all its events, each
\* as it was passed and in the order it was passed; it has nothing of a call
\* that did not commit.
C18_ConcurrentAppendsKeepCallOrder ==
    \A l \in 1..Len(calls) :
        Loaded(l, "load_events") =>
            \A c \in 1..Len(calls) :
                LET part == FromCall(l, c)
                IN part # <<>> =>
                       /\ calls[c].kind = "save_events"
                       /\ Returned(c) \/ calls[c].txn = "committed"
                       /\ Len(part) = Len(calls[c].args)
                       /\ \A n \in 1..Len(part) :
                              /\ part[n].src = <<c, n>>
                              /\ part[n].evt = calls[c].args[n]

\* C18, witness: a load has returned the events of two append calls that ran
\* concurrently, an event of the one between the two events of the other
C18_Witness ==
    \E l \in 1..Len(calls) :
        /\ Returned(l)
        /\ calls[l].kind = "load_events"
        /\ Len(calls[l].result) = 3
        /\ \E c, d \in 1..Len(calls) :
               /\ c # d
               /\ calls[l].result[1].src = <<c, 1>>
               /\ calls[l].result[2].src = <<d, 1>>
               /\ calls[l].result[3].src = <<c, 2>>

(***************************************************************************)
(* Properties of the snapshot upsert.                                      *)
(***************************************************************************)
SnapshotRow(src) == CHOOSE r \in snapshots : <<r.call, r.idx>> = src
Upserts(c, aggregate_id) ==
    \E n \in 1..Len(calls[c].pending) :
        /\ calls[c].pending[n].table = "__snapshots"
        /\ calls[c].pending[n].row.aggregate_id = aggregate_id

\* C19: every step keeps every row of the snapshot table with its identity, its
\* sequence_num and its aggregate_type (and the save that inserted it), and with
\* its payload too unless the step is the COMMIT of a call that saved this
\* identity; so a load returns the snapshots in the order of the sequence
\* numbers their identities got when they were first inserted.
C19_OverwriteOnlyPayload ==
    /\ [][\A r \in snapshots :
            \E q \in snapshots' :
                /\ q.aggregate_id = r.aggregate_id
                /\ q.sequence_num = r.sequence_num
                /\ q.aggregate_type = r.aggregate_type
                /\ <<q.call, q.idx>> = <<r.call, r.idx>>
                /\ q.aggregate_data # r.aggregate_data =>
                       \E c \in 1..Len(calls) :
                           /\ calls[c].pc = "body"
                           /\ calls'[c].txn = "committed"
                           /\ Upserts(c, r.aggregate_id)]_vars
    /\ [](\A l \in 1..Len(calls) :
              Loaded(l, "load_snapshots") =>
                  LET res == calls[l].result
                  IN \A n, m \in 1..Len(res) :
                         n < m => SnapshotRow(res[n].src).sequence_num
                                      < SnapshotRow(res[m].src).sequence_num)

\* C19, witness: one call saved a1 and then a2, a later call saved a1 again with
\* another payload, and a load after it returned a1, with that payload, before a2
C19_Witness ==
    \E l, c, d \in 1..Len(calls) :
        /\ Returned(l)
        /\ calls[l].kind = "load_snapshots"
        /\ c \in calls[d].before
        /\ d \in calls[l].before
        /\ calls[c].args = <<AccountA1Y, AccountA2X>>
        /\ calls[d].args = <<AccountA1X>>
        /\ Len(calls[l].result) = 2
        /\ calls[l].result[1].src = <<c, 1>>
        /\ calls[l].result[1].snap = AccountA1X
        /\ calls[l].result[2].src = <<c, 2>>

\* the events a load returned
EventsOf(result) == [n \in 1..Len(result) |-> result[n].evt]

\* the committed log as event objects, in the order of sequence_num, and the
\* events of it that satisfy a predicate applied in-process
FullLog == LET rows == OrderBySeq(events)
           IN [n \in 1..Len(rows) |->
                  construct_named(rows[n].event_type, jsonb_loads(rows[n].event_data))]
DirectFilter(pred) ==
    LET Keep(evt) == Satisfies(pred, evt)
    IN SelectSeq(FullLog, Keep)

\* a value of a type a comparison does not support
UnsupportedValue(v) == v[1] \in {"Decimal", "NoneType"}
Unsupported(pred) ==
    /\ pred.node = "Where"
    /\ \E k \in 1..Len(pred.fields) :
           \E a \in 1..Len(pred.fields[k].pred.args) :
               UnsupportedValue(pred.fields[k].pred.args[a])

\* a load of events with a query
Querying(c) == calls[c].kind = "load_events" /\ Len(calls[c].args) > 0

\* C12: a load with a predicate whose values are supported returns, on existing
\* tables, exactly the events of the log that satisfy the predicate applied
\* in-process, in the order of the log: the step that runs the SELECT ends with
\* that result and raises nothing.
C12_PushDownCorrect ==
    [][\A c \in 1..Len(calls) :
          (/\ At(c, "body") /\ Querying(c) /\ calls[c].i = 0
           /\ ~Unsupported(calls[c].args[1])
           /\ tables
           /\ calls'[c] # calls[c])
          => /\ calls'[c].raised = "none"
             /\ EventsOf(calls'[c].result) = DirectFilter(calls[c].args[1])]_vars

\* C13: a load whose predicate compares a field with a value of an unsupported
\* type, be it the only value, one bound of a Between or one option of a OneOf,
\* never executes a query and never returns: it leaves the body with
\* RuntimeError, no statement sent and no record, and its transaction is rolled
\* back.
C13_UnsupportedValueIsFatal ==
    \A c \in 1..Len(calls) :
        (Querying(c) /\ Unsupported(calls[c].args[1]))
        => /\ calls[c].pc # "done"
           /\ calls[c].i = 0 /\ calls[c].sql = <<>> /\ calls[c].result = <<>>
           /\ calls[c].pc \in {"rollback", "release"} => calls[c].raised = "RuntimeError"
           /\ calls[c].pc = "release" =>
                  calls[c].stmts = <<"BEGIN", "ROLLBACK">> /\ calls[c].txn = "rolledback"

\* a load with one supported and one unsupported option has been rolled back
C13_Witness ==
    \E c \in 1..Len(calls) :
        /\ Querying(c) /\ calls[c].pc = "release"
        /\ calls[c].args[1] = OnAmount(OneOf(<<PyInt(5), PyDecimal(25)>>))
        /\ calls[c].raised = "RuntimeError"

\* C15: once an acquisition has completed and its pool is memoized, both tables
\* exist, and the simplifier of every later query converts timestamps with the
\* native function when the extension was installed and with the format string
\* when it was not.
C15_MissingCapabilityIsSoft ==
    (pool # 0 /\ pools[pool].bootstrap = "ok")
    => /\ tables
       /\ Simplifier("event_type", "event_data", timestamp_convert).timestamp_convert
              = IF pools[pool].extension = "native" THEN FromIsoFormat ELSE ToTimestamp

\* the parameters a predicate asks for, from left to right: the names of an Is;
\* for each field of a Where, in order, and each of its values, in order, the
\* field's name and then the value (as JSON text, or as ISO-8601 text for a
\* timestamp)
ValueParam(v) ==
    IF v[1] = "datetime" THEN PyStr(isoformat(v)) ELSE <<"json", pgjson_value(v)>>
ExpectedParams(pred) ==
    IF pred.node = "Is"
    THEN [k \in 1..Len(pred.types) |-> PyStr(pred.types[k])]
    ELSE Concat([k \in 1..Len(pred.fields) |->
                    Concat([a \in 1..Len(pred.fields[k].pred.args) |->
                               <<PyStr(pred.fields[k].name),
                                 ValueParam(pred.fields[k].pred.args[a])>>])])

\* the positions of the placeholders in a text
PlaceholderAt(tokens) == {t \in 1..Len(tokens) : tokens[t] = ph}
\* the parameter of the placeholder at position t: the one with as many
\* placeholders before it
ParamOf(tokens, params, t) ==
    params[Cardinality({u \in PlaceholderAt(tokens) : u <= t})]
\* the placeholder at t takes the kind of parameter its place in the text asks for
FitsPlace(tokens, params, t) ==
    LET param == ParamOf(tokens, params, t)
    IN CASE tokens[t - 1] \in {"->", "->>"} -> param[1] = "str"
         [] tokens[t + 1] = "::jsonb" -> param[1] = "json"
         [] tokens[t + 1] = "::timestamp" -> param[1] = "str"
         [] OTHER -> param[1] = "str"

\* C20: for every statement a load sent with a compiled predicate, the residual
\* is none, the clause has as many placeholders as there are parameters, and the
\* parameters are in the left-to-right order of their placeholders: those the
\* predicate asks for, each of the kind its place in the text takes.
C20_PlaceholdersMatchParams ==
    \A c \in 1..Len(calls) :
        (calls[c].sql # <<>> /\ calls[c].sql[1].where # <<>>)
        => LET clause == calls[c].sql[1].where[1]
               params == calls[c].sql[1].params
               text == Render(clause)
           IN /\ simplify(calls[c].args[1], "event_type", "event_data").residual = "None"
              /\ Placeholders(clause) = Len(params)
              /\ params = ExpectedParams(calls[c].args[1])
              /\ \A t \in PlaceholderAt(text) : FitsPlace(text, params, t)

\* a query with two timestamp bounds and a number was sent with the
\* format-string conversion
C20_Witness ==
    \E c \in 1..Len(calls) :
        /\ calls[c].sql # <<>> /\ calls[c].sql[1].where # <<>>
        /\ Len(calls[c].sql[1].params) = 6
        /\ calls[c].sql[1].where[1].items[1].items[1].convert = ToTimestamp

\* a pool that a running __get_pool has created and still bootstraps under the lock
InBootstrap(n) ==
    \E c \in 1..Len(calls) : calls[c].pc = "bootstrap" /\ calls[c].pool = n

\* C21: every pool the engine has created is the memoized pool or has been
\* closed, once the acquisition that created it has ended: no pool stays open
\* that the engine does not reference.
C21_NoOrphanPool ==
    \A n \in 1..Len(pools) :
        \/ pool = n
        \/ pools[n].state = "closed"
        \/ InBootstrap(n)

====
